---- MODULE Spec2Model ----
(***************************************************************************)
(* Audience Tracker (src/audience_tracker.py): the per-user upload history *)
(* kept in st.session_state, the spreadsheet normaliser process_excel and  *)
(* the differ get_changes, as a state machine over Streamlit script runs.  *)
(*                                                                         *)
(* Strings of the program (column headers, cell texts, dictionary keys)    *)
(* are sequences of one-character strings, so that strip(), lower(), the   *)
(* `in` substring test, str() and int() are computed, not assumed.         *)
(***************************************************************************)
EXTENDS Integers, Sequences, FiniteSets, TLC

\* ------------------------------------------------------------------ bounds
\* rows of an uploaded sheet
MaxRows == 2
\* team members of USERS taken into the session (in the order of the source)
NumUsers == 2
\* appends to upload_history in one session (datetime.now() ticks)
MaxUploads == 2
\* length of the histories handed to get_changes on its own
MaxHistLen == 3

\* ------------------------------------------------------- Python str methods
Whitespace == {" ", "\t", "\n"}

UpperChars == <<"A","B","C","D","E","F","G","H","I","J","K","L","M",
                "N","O","P","Q","R","S","T","U","V","W","X","Y","Z">>
LowerChars == <<"a","b","c","d","e","f","g","h","i","j","k","l","m",
                "n","o","p","q","r","s","t","u","v","w","x","y","z">>

LowerChar(c) ==
    IF \E i \in 1..26 : UpperChars[i] = c
    THEN LowerChars[CHOOSE i \in 1..26 : UpperChars[i] = c]
    ELSE c

\* str.lower()
Lower(s) == [i \in 1..Len(s) |-> LowerChar(s[i])]

RECURSIVE LStrip(_)
LStrip(s) ==
    IF s # <<>> /\ Head(s) \in Whitespace THEN LStrip(Tail(s)) ELSE s

RECURSIVE RStrip(_)
RStrip(s) ==
    IF s # <<>> /\ s[Len(s)] \in Whitespace
    THEN RStrip(SubSeq(s, 1, Len(s) - 1))
    ELSE s

\* str.strip()
Strip(s) == RStrip(LStrip(s))

\* the Python test  sub in s
Contains(sub, s) ==
    \E i \in 1..(Len(s) - Len(sub) + 1) : SubSeq(s, i, i + Len(sub) - 1) = sub

Digits == <<"0","1","2","3","4","5","6","7","8","9">>

IsDigit(c) == \E i \in 1..10 : Digits[i] = c

DigitVal(c) == (CHOOSE i \in 1..10 : Digits[i] = c) - 1

RECURSIVE DigitsVal(_)
DigitsVal(s) ==
    IF s = <<>> THEN 0
    ELSE 10 * DigitsVal(SubSeq(s, 1, Len(s) - 1)) + DigitVal(s[Len(s)])

RECURSIVE NatToStr(_)
NatToStr(n) ==
    IF n < 10 THEN <<Digits[n + 1]>>
    ELSE NatToStr(n \div 10) \o <<Digits[(n % 10) + 1]>>

IntToStr(n) == IF n < 0 THEN <<"-">> \o NatToStr(0 - n) ELSE NatToStr(n)

\* ------------------------------------------------------------- cell values
\* A cell of the DataFrame that pd.read_excel returned:
\*   nan    missing value (NaN / NaT)
\*   none   Python None (the default of row.get for the name)
\*   str    text, s
\*   int    whole number, n
\*   float  number with a fraction, n in tenths
\*   ts     pandas Timestamp, n the day of January 2024
\*   series what row.get returns when two columns carry the label
NaN == [t |-> "nan", s |-> <<>>, n |-> 0]
NoneCell == [t |-> "none", s |-> <<>>, n |-> 0]
SeriesCell == [t |-> "series", s |-> <<>>, n |-> 0]
StrCell(s) == [t |-> "str", s |-> s, n |-> 0]
IntCell(n) == [t |-> "int", s |-> <<>>, n |-> n]
FloatCell(tenths) == [t |-> "float", s |-> <<>>, n |-> tenths]
TsCell(day) == [t |-> "ts", s |-> <<>>, n |-> day]

\* pd.notna(x) on a scalar
NotNa(c) == c.t \notin {"nan", "none"}

\* truncation toward zero of a number given in tenths
TruncTenths(n) == IF n >= 0 THEN n \div 10 ELSE 0 - ((0 - n) \div 10)

\* the text accepted by int(str): optional blanks, optional sign, digits
IntLiteralBody(s) ==
    IF s # <<>> /\ Head(s) \in {"-", "+"} THEN Tail(s) ELSE s

IsIntLiteral(s) ==
    LET b == IntLiteralBody(Strip(s))
    IN  b # <<>> /\ \A i \in 1..Len(b) : IsDigit(b[i])

\* int(x): [raised |-> TRUE] stands for ValueError / TypeError
PyInt(c) ==
    CASE c.t = "int" -> [raised |-> FALSE, v |-> c.n]
      [] c.t = "float" -> [raised |-> FALSE, v |-> TruncTenths(c.n)]
      [] c.t = "str" /\ IsIntLiteral(c.s) ->
            [raised |-> FALSE,
             v |-> IF Head(Strip(c.s)) = "-"
                   THEN 0 - DigitsVal(IntLiteralBody(Strip(c.s)))
                   ELSE DigitsVal(IntLiteralBody(Strip(c.s)))]
      [] OTHER -> [raised |-> TRUE, v |-> 0]

TwoDigits(n) == IF n < 10 THEN <<"0">> \o NatToStr(n) ELSE NatToStr(n)

\* str(x)
PyStr(c) ==
    CASE c.t = "str" -> c.s
      [] c.t = "int" -> IntToStr(c.n)
      [] c.t = "float" ->
            (IF c.n < 0 THEN <<"-">> ELSE <<>>)
            \o NatToStr((IF c.n < 0 THEN 0 - c.n ELSE c.n) \div 10)
            \o <<".">>
            \o NatToStr((IF c.n < 0 THEN 0 - c.n ELSE c.n) % 10)
      [] c.t = "ts" ->
            <<"2","0","2","4","-","0","1","-">> \o TwoDigits(c.n)
            \o <<" ","0","0",":","0","0",":","0","0">>
      [] c.t = "nan" -> <<"n","a","n">>
      [] OTHER -> <<"N","o","n","e">>

\* ------------------------------------------------------------ process_excel
\* An uploaded file: unreadable (pd.read_excel raises), or the DataFrame read
\* from it, cols the header cells and rows the rows, one cell per column.
CorruptFile == [corrupt |-> TRUE, cols |-> <<>>, rows |-> <<>>]
DataFrame(cols, rows) == [corrupt |-> FALSE, cols |-> cols, rows |-> rows]

S_audience_name == <<"a","u","d","i","e","n","c","e"," ","n","a","m","e">>
S_name == <<"n","a","m","e">>
S_audience_size == <<"a","u","d","i","e","n","c","e"," ","s","i","z","e">>
S_size == <<"s","i","z","e">>
S_creation_date == <<"c","r","e","a","t","i","o","n"," ","d","a","t","e">>
S_created == <<"c","r","e","a","t","e","d">>
S_refresh_date == <<"r","e","f","r","e","s","h"," ","d","a","t","e">>
S_refreshed == <<"r","e","f","r","e","s","h","e","d">>

\* df.columns.str.strip() followed by col.lower(): a header that is not text
\* is refused by the .str accessor or becomes NaN, which has no lower()
ColumnsRaise(cols) == \E i \in 1..Len(cols) : cols[i].t # "str"

\* df.columns = df.columns.str.strip()
StripColumns(cols) == [i \in 1..Len(cols) |-> Strip(cols[i].s)]

\* the chain without col.lower()
RoleOf_case_sensitive(col) ==
    IF Contains(S_audience_name, col) \/ col = S_name
    THEN "audience_name"
    ELSE IF Contains(S_audience_size, col) \/ col = S_size
    THEN "audience_size"
    ELSE IF Contains(S_creation_date, col) \/ Contains(S_created, col)
    THEN "creation_date"
    ELSE IF Contains(S_refresh_date, col) \/ Contains(S_refreshed, col)
    THEN "refresh_date"
    ELSE ""

\* the if / elif chain on one (stripped) column name; "" when no branch fits
RoleOf(col) ==
    LET col_lower == Lower(col)
    IN  IF Contains(S_audience_name, col_lower) \/ col_lower = S_name
        THEN "audience_name"
        ELSE IF Contains(S_audience_size, col_lower) \/ col_lower = S_size
        THEN "audience_size"
        ELSE IF Contains(S_creation_date, col_lower)
                \/ Contains(S_created, col_lower)
        THEN "creation_date"
        ELSE IF Contains(S_refresh_date, col_lower)
                \/ Contains(S_refreshed, col_lower)
        THEN "refresh_date"
        ELSE ""

\* an assignment that keeps the value a key already has
DictSet_keep_first(d, k, v) ==
    [x \in (DOMAIN d) \cup {k} |-> IF x \in DOMAIN d THEN d[x] ELSE v]

\* dict assignment d[k] = v
DictSet(d, k, v) ==
    [x \in (DOMAIN d) \cup {k} |-> IF x = k THEN v ELSE d[x]]

\* dict.get(k, default)
DictGet(d, k, default) == IF k \in DOMAIN d THEN d[k] ELSE default

EmptyDict == [x \in {} |-> 0]

\* for col in df.columns: ... col_mapping[role] = col
RECURSIVE ColMappingLoop(_, _, _)
ColMappingLoop(columns, i, col_mapping) ==
    IF i > Len(columns) THEN col_mapping
    ELSE ColMappingLoop(columns, i + 1,
            IF RoleOf(columns[i]) = "" THEN col_mapping
            ELSE DictSet(col_mapping, RoleOf(columns[i]), columns[i]))

ColMapping(columns) == ColMappingLoop(columns, 1, EmptyDict)

\* row.get(label, default): the cell under the label, the default when no
\* column carries it, a Series when several do
RowGet(columns, row, label, default) ==
    LET hits == {i \in 1..Len(columns) : columns[i] = label}
    IN  IF hits = {} THEN default
        ELSE IF Cardinality(hits) = 1 THEN row[CHOOSE i \in hits : TRUE]
        ELSE SeriesCell

\* int(x) if pd.notna(x) else 0   with x = row.get(size column, 0)
CoerceSize(columns, row, col_mapping) ==
    LET x == RowGet(columns, row,
                    DictGet(col_mapping, "audience_size", <<>>), IntCell(0))
    IN  IF x.t = "series" THEN [raised |-> TRUE, v |-> 0]
        ELSE IF NotNa(x) THEN PyInt(x)
        ELSE [raised |-> FALSE, v |-> 0]

\* str(x) if pd.notna(x) else ''   with x = row.get(date column, '')
CoerceDate(columns, row, col_mapping, role) ==
    LET x == RowGet(columns, row,
                    DictGet(col_mapping, role, <<>>), StrCell(<<>>))
    IN  IF x.t = "series" THEN [raised |-> TRUE, v |-> <<>>]
        ELSE IF NotNa(x) THEN [raised |-> FALSE, v |-> PyStr(x)]
        ELSE [raised |-> FALSE, v |-> <<>>]

\* the body of  for _, row in df.iterrows()  for one row, on the dictionary d
RowStep(columns, row, col_mapping, d) ==
    LET audience_name ==
            RowGet(columns, row, col_mapping["audience_name"], NoneCell)
        size == CoerceSize(columns, row, col_mapping)
        creation == CoerceDate(columns, row, col_mapping, "creation_date")
        refresh == CoerceDate(columns, row, col_mapping, "refresh_date")
    IN  IF audience_name.t = "series" THEN [raised |-> TRUE, d |-> d]
        ELSE IF ~NotNa(audience_name) THEN [raised |-> FALSE, d |-> d]
        ELSE IF size.raised \/ creation.raised \/ refresh.raised
        THEN [raised |-> TRUE, d |-> d]
        ELSE [raised |-> FALSE,
              d |-> DictSet(d, PyStr(audience_name),
                            [audienceSize |-> size.v,
                             creationDate |-> creation.v,
                             refreshDate |-> refresh.v])]

RECURSIVE RowsLoop(_, _, _, _, _)
RowsLoop(columns, rows, col_mapping, i, d) ==
    IF i > Len(rows) THEN [raised |-> FALSE, d |-> d]
    ELSE LET step == RowStep(columns, rows[i], col_mapping, d)
         IN  IF step.raised THEN step
             ELSE RowsLoop(columns, rows, col_mapping, i + 1, step.d)

\* what process_excel returns: ok with the dictionary, or None (ok = FALSE)
\* with the message it showed
Failed(kind) == [ok |-> FALSE, kind |-> kind, data |-> EmptyDict]

process_excel(uploaded_file) ==
    IF uploaded_file.corrupt \/ ColumnsRaise(uploaded_file.cols)
    THEN Failed("ParseFailure")
    ELSE LET columns == StripColumns(uploaded_file.cols)
             col_mapping == ColMapping(columns)
         IN  IF "audience_name" \notin DOMAIN col_mapping
             THEN Failed("UnresolvableSchema")
             ELSE LET loop == RowsLoop(columns, uploaded_file.rows,
                                       col_mapping, 1, EmptyDict)
                  IN  IF loop.raised THEN Failed("ParseFailure")
                      ELSE IF Cardinality(DOMAIN loop.d) = 0
                      THEN Failed("EmptyResult")
                      ELSE [ok |-> TRUE, kind |-> "Snapshot", data |-> loop.d]

\* ------------------------------------------------------------- get_changes
\* list(a_set): the elements once each, in an order the program does not fix
ListsOf(S) ==
    {l \in [1..Cardinality(S) -> S] : \A i, j \in DOMAIN l : l[i] = l[j] => i = j}

\* the first entry taken for the second-to-last one
previous_dict_first(upload_history) == upload_history[1].data

previous_dict(upload_history) == upload_history[Len(upload_history) - 1].data
\* the first entry taken for the last one
current_dict_first(upload_history) == upload_history[1].data

current_dict(upload_history) == upload_history[Len(upload_history)].data

\* the pairs (added, removed) get_changes may return
get_changes(upload_history) ==
    IF Len(upload_history) < 2 THEN {<< <<>>, <<>> >>}
    ELSE LET previous_names == DOMAIN previous_dict(upload_history)
             current_names == DOMAIN current_dict(upload_history)
         IN  ListsOf(current_names \ previous_names)
                \X ListsOf(previous_names \ current_names)

\* ------------------------------------------------------- the sheets supplied
H_Audience_Name == StrCell(<<"A","u","d","i","e","n","c","e"," ","N","a","m","e">>)
H_Audience_Size == StrCell(<<"A","u","d","i","e","n","c","e"," ","S","i","z","e">>)
H_name_padded == StrCell(<<" ","n","a","m","e"," ">>)
H_SIZE == StrCell(<<"S","I","Z","E">>)
H_Created_On == StrCell(<<"C","r","e","a","t","e","d"," ","O","n">>)
H_Refresh_Date == StrCell(<<"A","u","d","i","e","n","c","e"," ","R","e","f","r","e","s","h"," ","D","a","t","e">>)
H_Name == StrCell(<<"N","a","m","e">>)
H_Name_trailing == StrCell(<<"N","a","m","e"," ">>)
H_Title == StrCell(<<"T","i","t","l","e">>)
H_2024 == IntCell(2024)

NameA == StrCell(<<"A">>)
NameB == StrCell(<<"B">>)
NameC == StrCell(<<"C">>)

NameCells == {NaN, NameA, NameB}
SizeCells == {NaN, IntCell(3), IntCell(-5), FloatCell(27),
              StrCell(<<"1","2">>), StrCell(<<"a","b","c">>)}
DateCells == {NaN, StrCell(<<"Q","1">>), TsCell(5)}

\* a layout: the header row and, per column, the cells a row may hold there
Layouts ==
    { [cols |-> <<H_Audience_Name, H_Audience_Size>>,
       doms |-> <<NameCells, SizeCells>>],
      [cols |-> <<H_name_padded, H_SIZE, H_Created_On, H_Refresh_Date>>,
       doms |-> <<{NaN, NameA}, {IntCell(3)}, DateCells, {NaN, TsCell(5)}>>],
      [cols |-> <<H_Name>>, doms |-> <<NameCells>>],
      [cols |-> <<H_Title, H_SIZE>>, doms |-> <<{NameA}, {IntCell(3)}>>],
      [cols |-> <<H_Audience_Name, H_Name>>, doms |-> <<NameCells, NameCells>>],
      [cols |-> <<H_Name, H_Name_trailing>>, doms |-> <<NameCells, {NaN, NameA}>>],
      [cols |-> <<H_Name, H_2024>>, doms |-> <<NameCells, {IntCell(3)}>>],
      [cols |-> <<H_2024>>, doms |-> <<{NameA}>>] }

RowsOf(layout) ==
    {r \in [1..Len(layout.cols) -> UNION {layout.doms[i] : i \in 1..Len(layout.cols)}] :
        \A i \in 1..Len(layout.cols) : r[i] \in layout.doms[i]}

\* the histories handed to get_changes on its own: entries as main_app
\* appends them, over the names A, B, C, all records of an entry alike
Names == {<<"A">>, <<"B">>, <<"C">>}
Records == {[audienceSize |-> n, creationDate |-> <<>>, refreshDate |-> <<>>] : n \in {1, 2}}
Snapshots == UNION {{[k \in K |-> r] : r \in Records} : K \in (SUBSET Names) \ {{}}}

HistoryOf(ds) ==
    [i \in 1..Len(ds) |-> [data |-> ds[i], timestamp |-> i,
                           count |-> Cardinality(DOMAIN ds[i])]]

\* ------------------------------------------------------------------ state
VARIABLES
    logged_in,      \* st.session_state.logged_in
    username,       \* st.session_state.username
    user_data,      \* st.session_state.user_data
    uploaded_file,  \* what the st.file_uploader widget holds
    rerun,          \* st.rerun() was called and the script has not run yet
    clock,          \* datetime.now()
    view,           \* what the last script run that ran to its end rendered
    df,             \* argument of process_excel called on its own
    result,         \* and what it returned
    hist,           \* argument of get_changes called on its own
    changes,        \* and what it returned
    fpc             \* which function is called on its own, and whether it has

vars == <<logged_in, username, user_data, uploaded_file, rerun, clock, view,
          df, result, hist, changes, fpc>>
appvars == <<logged_in, username, user_data, uploaded_file, rerun, clock, view>>
fnvars == <<df, result, hist, changes, fpc>>

USER_NAMES == <<"admin", "Alaa", "Ashley", "Flora", "Tom", "Sebastian">>
USER_PASSWORDS == <<"password123", "alaa123", "beyonce101", "truffle",
                    "excel101", "databricks101">>
USERS == [u \in {USER_NAMES[i] : i \in 1..NumUsers} |->
            USER_PASSWORDS[CHOOSE i \in 1..NumUsers : USER_NAMES[i] = u]]

NoFile == [present |-> FALSE, file |-> ""]
Held(f) == [present |-> TRUE, file |-> f]

NoChanges == [shown |-> FALSE, added |-> <<>>, removed |-> <<>>]

\* what login_page renders
LoginView(message) ==
    [page |-> "login", message |-> message, changes |-> NoChanges,
     audience_dict |-> EmptyDict, buttons |-> 0]

AppInit ==
    /\ logged_in = FALSE
    /\ username = ""
    /\ user_data = [user \in DOMAIN USERS |->
                        [upload_history |-> <<>>, audience_dict |-> EmptyDict]]
    /\ uploaded_file = NoFile
    /\ rerun = FALSE
    /\ clock = 0
    /\ view = LoginView("")

FnIdle ==
    /\ df = CorruptFile
    /\ result = Failed("")
    /\ hist = <<>>
    /\ changes = << <<>>, <<>> >>
    /\ fpc = "idle"

\* ------------------------------------------------------------ the session
\* the files a user picks in the uploader
Sheet_A == DataFrame(<<H_Audience_Name, H_Audience_Size>>,
                     << <<NameA, IntCell(3)>>, <<NameB, FloatCell(27)>> >>)
Sheet_B == DataFrame(<<H_name_padded, H_SIZE>>,
                     << <<NameB, IntCell(7)>>, <<NameC, NaN>> >>)
Sheet_NoName == DataFrame(<<H_Title, H_SIZE>>, << <<NameA, IntCell(3)>> >>)
Sheet_EmptyNames == DataFrame(<<H_Name>>, << <<NaN>>, <<NaN>> >>)
Sheet_BadSize == DataFrame(<<H_Audience_Name, H_Audience_Size>>,
                           << <<NameA, StrCell(<<"a","b","c">>)>> >>)
\* the files, by name, and what pd.read_excel makes of each
Files == {"a.xlsx", "b.xlsx", "no_name.xlsx", "empty_names.xlsx",
          "bad_size.xlsx", "corrupt.xlsx"}

FileContent ==
    [f \in Files |->
        CASE f = "a.xlsx" -> Sheet_A
          [] f = "b.xlsx" -> Sheet_B
          [] f = "no_name.xlsx" -> Sheet_NoName
          [] f = "empty_names.xlsx" -> Sheet_EmptyNames
          [] f = "bad_size.xlsx" -> Sheet_BadSize
          [] OTHER -> CorruptFile]

\* process_excel on the files of the session, computed once per file
Processed == [f \in Files |-> process_excel(FileContent[f])]

\* get_user_data()
get_user_data == user_data[username]

\* one store for all users
update_user_data_shared(upload_history, audience_dict) ==
    user_data' = [u \in DOMAIN user_data |->
                    [upload_history |-> upload_history,
                     audience_dict |-> audience_dict]]

\* update_user_data(upload_history, audience_dict)
update_user_data(upload_history, audience_dict) ==
    user_data' = [user_data EXCEPT
                    ![username] = [upload_history |-> upload_history,
                                   audience_dict |-> audience_dict]]

\* the append done without the test
Truthy_unchecked(r) == TRUE

\* the test  if new_audience_dict:  (None and {} are false)
Truthy(r) == r.ok /\ Cardinality(DOMAIN r.data) > 0

\* the count one short
NewEntry_count_short(new_audience_dict, timestamp) ==
    [data |-> new_audience_dict, timestamp |-> timestamp,
     count |-> Cardinality(DOMAIN new_audience_dict) - 1]

\* the entry main_app appends
NewEntry(new_audience_dict, timestamp) ==
    [data |-> new_audience_dict, timestamp |-> timestamp,
     count |-> Cardinality(DOMAIN new_audience_dict)]

\* the entry whose "Load This Upload" button puts its data on display
LoadedData(upload_history, idx) == upload_history[idx].data

\* "Changes from Last Upload", for one pair get_changes returned
ChangesView(upload_history, pair) ==
    IF Len(upload_history) > 1 /\ (pair[1] # <<>> \/ pair[2] # <<>>)
    THEN [shown |-> TRUE, added |-> pair[1], removed |-> pair[2]]
    ELSE NoChanges

\* what a run of main_app that reaches its last line has rendered
MainView(upload_history, audience_dict, message, pair) ==
    [page |-> "main", message |-> message,
     changes |-> ChangesView(upload_history, pair),
     audience_dict |-> audience_dict,
     buttons |-> IF Cardinality(DOMAIN audience_dict) > 0 /\ Len(upload_history) > 1
                 THEN Len(upload_history) ELSE 0]

\* One run of main_app with the uploader holding file and, when load_idx > 0,
\* the button "Load This Upload" number load_idx pressed (Logout not pressed).
main_app(file, load_idx) ==
    LET upload_history == get_user_data.upload_history
        audience_dict == get_user_data.audience_dict
        new_audience_dict == Processed[file.file]
    IN  IF file.present /\ Truthy(new_audience_dict)
        THEN /\ clock < MaxUploads
             /\ update_user_data(
                    Append(upload_history, NewEntry(new_audience_dict.data, clock)),
                    new_audience_dict.data)
             /\ clock' = clock + 1
             /\ rerun' = TRUE
             /\ view' = view
        ELSE IF /\ Cardinality(DOMAIN audience_dict) > 0
                /\ Len(upload_history) > 1
                /\ load_idx \in 1..Len(upload_history)
        THEN /\ update_user_data(upload_history, LoadedData(upload_history, load_idx))
             /\ rerun' = TRUE
             /\ UNCHANGED <<clock, view>>
        ELSE /\ \E pair \in get_changes(upload_history) :
                    view' = MainView(upload_history, audience_dict,
                                     IF file.present THEN new_audience_dict.kind ELSE "",
                                     pair)
             /\ rerun' = FALSE
             /\ UNCHANGED <<user_data, clock>>

\* one run of login_page with no button pressed; the uploader is not on the
\* page, so Streamlit drops what it held
login_page ==
    /\ view' = LoginView("")
    /\ uploaded_file' = NoFile
    /\ rerun' = FALSE
    /\ UNCHANGED <<logged_in, username, user_data, clock>>

\* the button "Login" with a name of the select box and a typed password
Login(name, password) ==
    /\ ~logged_in
    /\ view.page = "login"
    /\ name \in DOMAIN USERS
    /\ IF USERS[name] = password
       THEN /\ logged_in' = TRUE
            /\ username' = name
            /\ rerun' = TRUE
            /\ view' = view
       ELSE /\ view' = LoginView("Invalid password")
            /\ rerun' = FALSE
            /\ UNCHANGED <<logged_in, username>>
    /\ uploaded_file' = NoFile
    /\ UNCHANGED <<user_data, clock, fnvars>>

\* the button "Logout"
Logout ==
    /\ logged_in
    /\ view.page = "main"
    /\ logged_in' = FALSE
    /\ rerun' = TRUE
    /\ UNCHANGED <<username, user_data, uploaded_file, clock, view, fnvars>>

\* the user picks a file in the uploader
UploadFile(f) ==
    /\ logged_in
    /\ view.page = "main"
    /\ uploaded_file' = Held(f)
    /\ main_app(Held(f), 0)
    /\ UNCHANGED <<logged_in, username, fnvars>>

\* the user removes the file from the uploader
ClearFile ==
    /\ logged_in
    /\ view.page = "main"
    /\ uploaded_file.present
    /\ uploaded_file' = NoFile
    /\ main_app(NoFile, 0)
    /\ UNCHANGED <<logged_in, username, fnvars>>

\* the button "Load This Upload" of entry idx, as rendered
LoadThisUpload(idx) ==
    /\ logged_in
    /\ view.page = "main"
    /\ idx \in 1..view.buttons
    /\ main_app(uploaded_file, idx)
    /\ UNCHANGED <<logged_in, username, uploaded_file, fnvars>>

\* the run that st.rerun() asked for
RunScript ==
    /\ rerun
    /\ IF logged_in
       THEN /\ main_app(uploaded_file, 0)
            /\ UNCHANGED <<logged_in, username, uploaded_file>>
       ELSE login_page
    /\ UNCHANGED fnvars

Init == AppInit /\ FnIdle

Next ==
    \/ \E name \in DOMAIN USERS, password \in {USERS[u] : u \in DOMAIN USERS} :
            Login(name, password)
    \/ Logout
    \/ \E f \in Files : UploadFile(f)
    \/ ClearFile
    \/ \E idx \in 1..MaxUploads : LoadThisUpload(idx)
    \/ RunScript

Spec == Init /\ [][Next]_vars

\* ------------------------------------- process_excel and get_changes alone
InitFn ==
    /\ AppInit
    /\ result = Failed("")
    /\ changes = << <<>>, <<>> >>
    /\ \/ /\ fpc = "process_excel"
          /\ \/ df = CorruptFile
             \/ \E layout \in Layouts, k \in 0..MaxRows :
                    \E rows \in [1..k -> RowsOf(layout)] :
                        df = DataFrame(layout.cols, rows)
          /\ hist = <<>>
       \/ /\ fpc = "get_changes"
          /\ \E k \in 0..MaxHistLen :
                \E ds \in [1..k -> Snapshots] : hist = HistoryOf(ds)
          /\ df = CorruptFile

CallProcessExcel ==
    /\ fpc = "process_excel"
    /\ result' = process_excel(df)
    /\ fpc' = "processed"
    /\ UNCHANGED <<df, hist, changes, appvars>>

CallGetChanges ==
    /\ fpc = "get_changes"
    /\ changes' \in get_changes(hist)
    /\ fpc' = "compared"
    /\ UNCHANGED <<df, hist, result, appvars>>

NextFn == CallProcessExcel \/ CallGetChanges

SpecFn == InitFn /\ [][NextFn]_vars

\* ================================================================== claims
Elems(l) == {l[i] : i \in 1..Len(l)}

\* C1: get_changes returns two empty lists on a history of fewer than two
\* entries; otherwise a name is in added exactly when it is a key of the last
\* entry's data and not of the second-to-last entry's, in removed exactly when
\* it is a key of the second-to-last and not of the last, and never in both;
\* the records under the keys play no part.
C1_ChangesAreKeyDifferences ==
    fpc = "compared" =>
        IF Len(hist) < 2
        THEN changes[1] = <<>> /\ changes[2] = <<>>
        ELSE LET prev == hist[Len(hist) - 1].data
                 curr == hist[Len(hist)].data
             IN  /\ Elems(changes[1]) \cup Elems(changes[2]) \subseteq Names
                 /\ \A name \in Names :
                        /\ name \in Elems(changes[1])
                             <=> (name \in DOMAIN curr /\ name \notin DOMAIN prev)
                        /\ name \in Elems(changes[2])
                             <=> (name \in DOMAIN prev /\ name \notin DOMAIN curr)
                        /\ ~(name \in Elems(changes[1]) /\ name \in Elems(changes[2]))

\* a history of three entries whose last two share a name under different
\* records, with a name added and a name removed
C1_Witness ==
    /\ fpc = "compared"
    /\ Len(hist) = 3
    /\ changes[1] # <<>>
    /\ changes[2] # <<>>
    /\ hist[1].data # hist[2].data
    /\ \E name \in (DOMAIN hist[2].data) \cap (DOMAIN hist[3].data) :
            hist[2].data[name] # hist[3].data[name]

\* C2: a script run whose uploaded file process_excel rejects (no name column,
\* no valid record, or an exception) leaves every upload_history as it was.
C2_FailedIngestionKeepsHistory ==
    [][(logged_in /\ uploaded_file'.present
            /\ ~Processed[uploaded_file'.file].ok)
        => \A u \in DOMAIN USERS :
                user_data'[u].upload_history = user_data[u].upload_history]_vars

\* a rejected file has been processed for a user who has a history
C2_Witness ==
    /\ logged_in
    /\ uploaded_file.present
    /\ ~Processed[uploaded_file.file].ok
    /\ view.page = "main"
    /\ view.message = "ParseFailure"
    /\ Len(user_data[username].upload_history) >= 1

\* C3: every step leaves each user's upload_history as it was or appends one
\* entry to it; the appended entry holds the snapshot of the file in the
\* uploader and counts its names; picking a file that process_excel accepts
\* appends its snapshot to the history of the user logged in.
C3_HistoryAppendOnly ==
    [][\A u \in DOMAIN USERS :
        LET h == user_data[u].upload_history
            hn == user_data'[u].upload_history
            r == Processed[uploaded_file'.file]
        IN  /\ \/ hn = h
               \/ /\ Len(hn) = Len(h) + 1
                  /\ SubSeq(hn, 1, Len(h)) = h
                  /\ uploaded_file'.present /\ r.ok
                  /\ hn[Len(hn)].data = r.data
                  /\ hn[Len(hn)].count = Cardinality(DOMAIN r.data)
                  /\ hn[Len(hn)].count > 0
            /\ (logged_in /\ u = username /\ uploaded_file' # uploaded_file
                    /\ uploaded_file'.present /\ r.ok)
                => (Len(hn) = Len(h) + 1 /\ hn[Len(hn)].data = r.data)]_vars

\* after uploads, a "Load This Upload" of an older entry and a logout, the
\* history still holds the two different snapshots
C3_Witness ==
    /\ ~logged_in
    /\ \E u \in DOMAIN USERS :
        LET h == user_data[u].upload_history
        IN  /\ Len(h) >= 2
            /\ h[1].data # h[Len(h)].data
            /\ user_data[u].audience_dict = h[1].data

\* C4 as stated: whenever a user's history is not empty, the user's
\* audience_dict is the data of its last entry.
C4_Claim ==
    \A u \in DOMAIN USERS :
        LET h == user_data[u].upload_history
        IN  h # <<>> => user_data[u].audience_dict = h[Len(h)].data

\* C4, amended: whenever a user's history is not empty, the user's
\* audience_dict is the data of some entry of it (of none when it is empty, and
\* then audience_dict is empty); right after an append it is the data of the
\* last entry; and the changes a run displays are those between the last two
\* entries, the last one on the right-hand side.
C4_DisplayedIsSomeEntry ==
    [][/\ \A u \in DOMAIN USERS :
            LET h == user_data[u].upload_history
                hn == user_data'[u].upload_history
                adn == user_data'[u].audience_dict
            IN  /\ IF hn = <<>> THEN adn = EmptyDict
                   ELSE \E i \in 1..Len(hn) : adn = hn[i].data
                /\ hn # h => adn = hn[Len(hn)].data
       /\ (view' # view /\ view'.page = "main")
            => LET hn == user_data'[username'].upload_history
                   last == IF Len(hn) >= 2 THEN DOMAIN hn[Len(hn)].data ELSE {}
                   before == IF Len(hn) >= 2 THEN DOMAIN hn[Len(hn) - 1].data ELSE {}
               IN  /\ Elems(view'.changes.added) = last \ before
                   /\ Elems(view'.changes.removed) = before \ last
                   /\ view'.changes.shown <=> last # before]_vars

\* an older entry is on display and the page shows the changes between the
\* last two entries
C4_Witness ==
    /\ logged_in
    /\ view.page = "main"
    /\ view.changes.shown
    /\ LET h == user_data[username].upload_history
       IN  /\ Len(h) >= 2
           /\ user_data[username].audience_dict # h[Len(h)].data
           /\ view.audience_dict = user_data[username].audience_dict

\* -------------------------------------- the sheet, in the words of the claims
\* a header that, trimmed and lower-cased, contains 'audience name' or is 'name'
IsNameHeader(h) ==
    /\ h.t = "str"
    /\ \/ Contains(S_audience_name, Lower(Strip(h.s)))
       \/ Lower(Strip(h.s)) = S_name

IsSizeHeader(h) ==
    /\ h.t = "str"
    /\ ~IsNameHeader(h)
    /\ \/ Contains(S_audience_size, Lower(Strip(h.s)))
       \/ Lower(Strip(h.s)) = S_size

NameResolvable(f) == \E i \in 1..Len(f.cols) : IsNameHeader(f.cols[i])

\* every header is text and no two are the same once trimmed
PlainHeaders(f) ==
    /\ \A i \in 1..Len(f.cols) : f.cols[i].t = "str"
    /\ \A i, j \in 1..Len(f.cols) :
            Strip(f.cols[i].s) = Strip(f.cols[j].s) => i = j

\* the name column: the last one with a name header
NameColumn(f) ==
    CHOOSE i \in 1..Len(f.cols) :
        /\ IsNameHeader(f.cols[i])
        /\ \A j \in (i + 1)..Len(f.cols) : ~IsNameHeader(f.cols[j])

HasSizeColumn(f) == \E i \in 1..Len(f.cols) : IsSizeHeader(f.cols[i])

SizeColumn(f) ==
    CHOOSE i \in 1..Len(f.cols) :
        /\ IsSizeHeader(f.cols[i])
        /\ \A j \in (i + 1)..Len(f.cols) : ~IsSizeHeader(f.cols[j])

\* the rows whose name cell is not empty
NamedRows(f) ==
    {i \in 1..Len(f.rows) : f.rows[i][NameColumn(f)].t = "str"}

NameOfRow(f, i) == f.rows[i][NameColumn(f)].s

\* the last row carrying the name
LastRowOf(f, name) ==
    CHOOSE i \in NamedRows(f) :
        /\ NameOfRow(f, i) = name
        /\ \A j \in NamedRows(f) : NameOfRow(f, j) = name => j <= i

\* C5 as stated: a sheet with a name column and a row with a name yields a
\* dictionary whose keys are exactly the names of its rows.
C5_Claim ==
    (fpc = "processed" /\ ~df.corrupt /\ PlainHeaders(df)
        /\ NameResolvable(df) /\ NamedRows(df) # {})
    => /\ result.ok
       /\ DOMAIN result.data = {NameOfRow(df, i) : i \in NamedRows(df)}

\* C6: process_excel returns None, with the message of an unresolved name
\* column, exactly when no header, trimmed and lower-cased, contains
\* 'audience name' or is 'name' (the headers being text); it returns None when
\* the name column is found and all its cells are empty, with the message of
\* an empty result only then, and always then when the headers are text and
\* differ once trimmed; and a dictionary it returns is never empty.
C6_SchemaAndEmptyErrors ==
    (fpc = "processed" /\ ~df.corrupt) =>
        /\ ~NameResolvable(df) => ~result.ok
        /\ result.kind = "UnresolvableSchema"
            <=> (~NameResolvable(df) /\ \A i \in 1..Len(df.cols) : df.cols[i].t = "str")
        /\ (NameResolvable(df) /\ \A i \in 1..Len(df.rows) :
                                    df.rows[i][NameColumn(df)].t = "nan")
            => ~result.ok
        /\ result.kind = "EmptyResult"
            => (NameResolvable(df) /\ NamedRows(df) = {})
        /\ (PlainHeaders(df) /\ NameResolvable(df) /\ NamedRows(df) = {})
            => result.kind = "EmptyResult"
        /\ result.ok => Cardinality(DOMAIN result.data) > 0
        /\ result.ok <=> result.kind = "Snapshot"

\* two rows under a padded lower-case name header, both names empty
C6_Witness ==
    /\ fpc = "processed"
    /\ ~result.ok
    /\ result.kind = "EmptyResult"
    /\ Len(df.rows) = 2
    /\ df.cols[1] = H_name_padded

\* C7 as stated: every row with a name is stored with a size that is a
\* non-negative integer, 0 when the size cell is empty, the size column is
\* missing or the cell is not a number, and no size cell makes the file fail.
C7_Claim ==
    (fpc = "processed" /\ ~df.corrupt /\ PlainHeaders(df)
        /\ NameResolvable(df) /\ NamedRows(df) # {})
    => /\ result.ok
       /\ \A name \in DOMAIN result.data :
            /\ result.data[name].audienceSize >= 0
            /\ LET row == df.rows[LastRowOf(df, name)]
               IN  (\/ ~HasSizeColumn(df)
                    \/ row[SizeColumn(df)].t = "nan"
                    \/ (row[SizeColumn(df)].t = "str"
                            /\ ~IsIntLiteral(row[SizeColumn(df)].s)))
                   => result.data[name].audienceSize = 0

\* C9: in a dictionary process_excel returns, the record under a name is the
\* one made from the last row carrying that name: its size, creation date and
\* refresh date as coerced from that row's cells.
C9_DuplicateNamesLastWins ==
    (fpc = "processed" /\ result.ok) =>
        /\ DOMAIN result.data = {NameOfRow(df, i) : i \in NamedRows(df)}
        /\ \A name \in DOMAIN result.data :
            LET row == df.rows[LastRowOf(df, name)]
                columns == StripColumns(df.cols)
                col_mapping == ColMapping(columns)
            IN  result.data[name] =
                    [audienceSize |-> CoerceSize(columns, row, col_mapping).v,
                     creationDate |->
                        CoerceDate(columns, row, col_mapping, "creation_date").v,
                     refreshDate |->
                        CoerceDate(columns, row, col_mapping, "refresh_date").v]

\* two rows of one name with different sizes, the second one stored
C9_Witness ==
    /\ fpc = "processed"
    /\ result.ok
    /\ Len(df.rows) = 2
    /\ HasSizeColumn(df)
    /\ df.rows[1][NameColumn(df)] = df.rows[2][NameColumn(df)]
    /\ df.rows[1][SizeColumn(df)] = IntCell(3)
    /\ df.rows[2][SizeColumn(df)] = FloatCell(27)
    /\ result.data[<<"A">>].audienceSize = 2

\* C8: a step changes the history or the dictionary of no user but the one
\* logged in; logging in and logging out change nobody's, so a user who logs
\* in again finds both as they were left.
C8_UsersIsolated ==
    [][/\ \A v \in DOMAIN USERS :
            user_data'[v] # user_data[v] => (logged_in /\ v = username)
       /\ (logged_in' # logged_in \/ username' # username)
            => user_data' = user_data]_vars

\* two users with different histories, the second logged in after the first
C8_Witness ==
    /\ logged_in
    /\ \E v \in DOMAIN USERS :
        /\ v # username
        /\ Len(user_data[v].upload_history) >= 1
        /\ Len(user_data[username].upload_history) >= 1
        /\ user_data[v].audience_dict # user_data[username].audience_dict

\* C10 as stated: the run that st.rerun() asked for appends nothing and asks
\* for no further run.
C10_Claim ==
    [][RunScript => (user_data' = user_data /\ ~rerun')]_vars

====
